---- MODULE Spec2Model ----
(***************************************************************************)
(* Vector clocks for a replicated key-value store (src/src/main.rs).       *)
(*                                                                         *)
(* A run constructs two processes p1 and p2 (Process::new), hands them     *)
(* messages (Process::receive_message), reads entries back (Process::get)  *)
(* and ends with one comparison of the two processes' entries for a key    *)
(* (the free function get), which prints one line.  The run is driven      *)
(* either by one of the two example functions of the source                *)
(* (conflict_example_1, no_conflict_example_1) or by an arbitrary caller   *)
(* of the same operations.  Spec has callers that also hand over clocks   *)
(* built elsewhere; SpecCausal has only messages that carry a zero clock   *)
(* or a copy of a clock read from an entry of the same key; SpecLocal has  *)
(* only zero clocks and copies of the clock of the receiver itself.        *)
(*                                                                         *)
(* Rust's Option<T> is modelled as a sequence of length at most one:       *)
(* <<>> is None and <<x>> is Some(x).  Vec<usize> is a sequence, so the    *)
(* clock of process id i is at position i + 1.  A HashMap is a function    *)
(* whose DOMAIN is the set of keys present.  A usize counter is a natural  *)
(* number: the counters stay below MaxExternal + MaxEvents and below      *)
(* MaxCausalEvents + 1 (the examples: below 4), far from the width of      *)
(* usize.                                                                  *)
(***************************************************************************)
EXTENDS Naturals, Sequences, FiniteSets, TLC

\* const NUM_PROCESSES: usize = 3;
NUM_PROCESSES == 3

\* Bounds of the model: the number of messages an arbitrary caller hands to
\* the processes in one run, and the largest counter an externally built
\* clock carries.
MaxEvents == 2
MaxExternal == 2

\* The number of messages the caller hands over in a run in which every
\* message carries a zero clock or a copy of a stored clock.
MaxCausalEvents == 4

\* The two processes every run of the source constructs.
Replicas == {"p1", "p2"}

Keys == {"key1", "key2"}

Values == {"value 1", "value 2", "value 3"}

\* The values an arbitrary caller writes.
CallerValues == {"value 1", "value 2"}

\* A panic is its message and the source line it is raised at: the assert!
\* of VectorClock::new, or an Option::unwrap on None.
InvalidOwnerPanic ==
  <<"process id must be the index of the clock that belongs to the process", 18>>

UnwrapPanic(line) == <<"called Option::unwrap() on a None value", line>>

NoPanic == <<>>

VARIABLES
  driver,     \* who drives the run: an example function or an arbitrary caller
  pc,         \* the number of statements an example function has executed
  procs,      \* procs[r]: the Process r (process_id, num_processes, kv)
  p1_entry,   \* the local copy the driver keeps of an entry it read (Option<KvEntry>)
  entry_key,  \* the local key of the driver: the key p1_entry was read for
  applied,    \* applied[r][k]: number of completed receive_message calls of r for key k
  stdout,     \* the lines printed by get
  panic       \* the panic the run ended with, or NoPanic

vars == <<driver, pc, procs, p1_entry, entry_key, applied, stdout, panic>>

Max(a, b) == IF a >= b THEN a ELSE b

Min(a, b) == IF a <= b THEN a ELSE b

----------------------------------------------------------------------------
(* VectorClock *)

\* The assert! of VectorClock::new fails.
VectorClockNewPanics(process_id, processes) == ~(process_id < processes)

VectorClockNew(process_id, processes) ==
  [process_id |-> process_id, clocks |-> [i \in 1..processes |-> 0]]

\* Mutant: an event counts twice.
IncrementProcessClockTwice(vc, process_id) ==
  [vc EXCEPT !.clocks[process_id + 1] = @ + 2]

IncrementProcessClock(vc, process_id) ==
  [vc EXCEPT !.clocks[process_id + 1] = @ + 1]

\* Mutant: every process counts its events in the counter of process 0.
IncrementFirstProcessClock(vc) == IncrementProcessClock(vc, 0)

IncrementThisProcessClock(vc) == IncrementProcessClock(vc, vc.process_id)

\* Mutant: the counters of the other clock replace those of this clock.
ZipOverwrite(this, other) ==
  [i \in 1..Len(this) |-> IF i <= Len(other) THEN other[i] ELSE this[i]]

\* Mutant: the merged vector is as long as the shorter of the two vectors.
ZipTruncate(this, other) ==
  [i \in 1..Min(Len(this), Len(other)) |-> Max(this[i], other[i])]

\* zip stops at the shorter of the two vectors: the positions past it keep
\* the (incremented) value of this clock.
ZipMax(this, other) ==
  [i \in 1..Len(this) |->
     IF i <= Len(other) THEN Max(this[i], other[i]) ELSE this[i]]

\* Mutant: the receive is not counted as an event of this process.
MessageReceivedNoTick(vc, other_process_vector_clock) ==
  [vc EXCEPT !.clocks = ZipMax(vc.clocks, other_process_vector_clock.clocks)]

\* Mutant: the maximum is taken first and the own counter incremented after.
MessageReceivedMergeFirst(vc, other_process_vector_clock) ==
  IncrementThisProcessClock(
    [vc EXCEPT !.clocks = ZipMax(vc.clocks, other_process_vector_clock.clocks)])

MessageReceived(vc, other_process_vector_clock) ==
  LET incremented == IncrementThisProcessClock(vc)
  IN  [incremented EXCEPT
         !.clocks = ZipMax(incremented.clocks, other_process_vector_clock.clocks)]

----------------------------------------------------------------------------
(* Message, KvEntry, Process *)

Message(vector_clock, key, value) ==
  [vector_clock |-> vector_clock, key |-> key, value |-> value]

KvEntry(vector_clock, value) == [vector_clock |-> vector_clock, value |-> value]

ProcessNew(process_id, num_processes) ==
  [process_id |-> process_id, num_processes |-> num_processes, kv |-> <<>>]

\* Mutant: a missing key reads as a default entry (unwrap_or_default).
ProcessGetOrDefault(p, key) ==
  IF key \in DOMAIN p.kv
  THEN <<p.kv[key]>>
  ELSE <<KvEntry(VectorClockNew(0, p.num_processes), "")>>

ProcessGet(p, key) == IF key \in DOMAIN p.kv THEN <<p.kv[key]>> ELSE <<>>

\* receive_message panics exactly when it has to create the entry and the
\* assert! of VectorClock::new fails.
ReceiveMessagePanics(p, message) ==
  /\ message.key \notin DOMAIN p.kv
  /\ VectorClockNewPanics(p.process_id, p.num_processes)

\* Mutant: the map is replaced by one that holds the new entry alone.
InsertEntryAlone(kv, key, entry) == [k \in {key} |-> entry]

InsertEntry(kv, key, entry) ==
  [k \in DOMAIN kv \cup {key} |-> IF k = key THEN entry ELSE kv[k]]

\* Mutant: the value of an entry the process already holds is kept.
ReceiveMessageKeepValue(p, message) ==
  IF message.key \in DOMAIN p.kv
  THEN [p EXCEPT !.kv[message.key].vector_clock =
          MessageReceived(@, message.vector_clock)]
  ELSE [p EXCEPT !.kv =
          InsertEntry(@, message.key,
            KvEntry(MessageReceived(VectorClockNew(p.process_id, p.num_processes),
                                    message.vector_clock),
                    message.value))]

ReceiveMessage(p, message) ==
  IF message.key \in DOMAIN p.kv
  THEN [p EXCEPT !.kv[message.key] =
          KvEntry(MessageReceived(@.vector_clock, message.vector_clock),
                  message.value)]
  ELSE [p EXCEPT !.kv =
          InsertEntry(@, message.key,
            KvEntry(MessageReceived(VectorClockNew(p.process_id, p.num_processes),
                                    message.vector_clock),
                    message.value))]

----------------------------------------------------------------------------
(* get *)

\* Mutant: any instead of all.
ZipAnyLeq(c1, c2) == \E i \in 1..Min(Len(c1), Len(c2)) : c1[i] <= c2[i]

\* Mutant: the comparison runs from the second clock to the first.
ZipAllGeq(c1, c2) == \A i \in 1..Min(Len(c1), Len(c2)) : c2[i] <= c1[i]

\* .iter().zip(..).all(|(p1_clock, p2_clock)| p1_clock <= p2_clock)
ZipAllLeq(c1, c2) == \A i \in 1..Min(Len(c1), Len(c2)) : c1[i] <= c2[i]

\* Either unwrap of get fails.
GetPanics(key, p1, p2) == ProcessGet(p1, key) = <<>> \/ ProcessGet(p2, key) = <<>>

\* The unwrap of v1 is evaluated first.
GetPanic(key, p1, p2) ==
  IF ProcessGet(p1, key) = <<>> THEN UnwrapPanic(99) ELSE UnwrapPanic(100)

\* The line get prints.
GetLine(key, p1, p2) ==
  LET v1 == ProcessGet(p1, key)[1]
      v2 == ProcessGet(p2, key)[1]
  IN  [text |-> IF ZipAllLeq(v1.vector_clock.clocks, v2.vector_clock.clocks)
                THEN "ok"
                ELSE "conflicting versions",
       p1 |-> v1.vector_clock.clocks,
       p2 |-> v2.vector_clock.clocks]

----------------------------------------------------------------------------
(* The run *)

\* Clocks a transport hands over that no process of this run produced: each
\* counter 0 or MaxExternal, built for NUM_PROCESSES processes or for one
\* process less or more.
ExternalClocks ==
  UNION { { [process_id |-> 0, clocks |-> c] :
              c \in [1..n -> {0, MaxExternal}] } :
          n \in (NUM_PROCESSES - 1)..(NUM_PROCESSES + 1) }

NoneApplied == [r \in Replicas |-> [k \in Keys |-> 0]]

SumApplied(r) == applied[r]["key1"] + applied[r]["key2"]

TotalApplied == SumApplied("p1") + SumApplied("p2")

Running == panic = NoPanic /\ stdout = <<>>

\* p1 is process 0; the caller gives p2 any other id up to NUM_PROCESSES,
\* which is no index of a clock of NUM_PROCESSES processes.
Init ==
  /\ driver \in {"conflict_example_1", "no_conflict_example_1", "caller"}
  /\ pc = 0
  /\ \E id2 \in 1..NUM_PROCESSES :
       /\ driver # "caller" => id2 = 1
       /\ procs = [r \in Replicas |->
                     ProcessNew(IF r = "p1" THEN 0 ELSE id2, NUM_PROCESSES)]
  /\ p1_entry = <<>>
  /\ entry_key = "key1"
  /\ applied = NoneApplied
  /\ stdout = <<>>
  /\ panic = NoPanic

\* The driver returns, or the panic unwinds it: its locals p1, p2 and
\* p1_entry are dropped.
DropLocals ==
  /\ procs' = <<>>
  /\ p1_entry' = <<>>
  /\ applied' = NoneApplied

Panic(message) ==
  /\ panic' = message
  /\ DropLocals
  /\ UNCHANGED stdout

\* r.receive_message(message)
Receive(r, message) ==
  IF ReceiveMessagePanics(procs[r], message)
  THEN Panic(InvalidOwnerPanic)
  ELSE /\ procs' = [procs EXCEPT ![r] = ReceiveMessage(@, message)]
       /\ applied' = [applied EXCEPT ![r][message.key] = @ + 1]
       /\ UNCHANGED <<panic, p1_entry, stdout>>

\* let p1_entry = r.get(&key).cloned().unwrap();
ReadUnwrap(r, key, line) ==
  IF ProcessGet(procs[r], key) = <<>>
  THEN Panic(UnwrapPanic(line))
  ELSE /\ p1_entry' = ProcessGet(procs[r], key)
       /\ UNCHANGED <<procs, applied, stdout, panic>>

\* get(&key, &a, &b); the last statement of the driver
Get(key, a, b) ==
  IF GetPanics(key, procs[a], procs[b])
  THEN Panic(GetPanic(key, procs[a], procs[b]))
  ELSE /\ stdout' = Append(stdout, GetLine(key, procs[a], procs[b]))
       /\ DropLocals
       /\ UNCHANGED panic

conflict_example_1 ==
  /\ driver = "conflict_example_1"
  /\ Running
  /\ pc' = pc + 1
  /\ UNCHANGED <<driver, entry_key>>
  /\ \/ /\ pc = 0
        /\ Receive("p1", Message(VectorClockNew(0, NUM_PROCESSES), "key1", "value 1"))
     \/ /\ pc = 1
        /\ ReadUnwrap("p1", "key1", 140)
     \/ /\ pc = 2
        /\ Receive("p1", Message(p1_entry[1].vector_clock, "key1", "value 2"))
     \/ /\ pc = 3
        /\ ReadUnwrap("p1", "key1", 148)
     \/ /\ pc = 4
        /\ Receive("p1", Message(p1_entry[1].vector_clock, "key1", "value 3"))
     \/ /\ pc = 5
        /\ Receive("p2", Message(p1_entry[1].vector_clock, "key1", "value 3"))
     \/ /\ pc = 6
        /\ Get("key1", "p1", "p2")

no_conflict_example_1 ==
  /\ driver = "no_conflict_example_1"
  /\ Running
  /\ pc' = pc + 1
  /\ UNCHANGED <<driver, entry_key>>
  /\ \/ /\ pc = 0
        /\ Receive("p1", Message(VectorClockNew(0, NUM_PROCESSES), "key1", "value 1"))
     \/ /\ pc = 1
        /\ ReadUnwrap("p1", "key1", 179)
     \/ /\ pc = 2
        /\ Receive("p1", Message(p1_entry[1].vector_clock, "key1", "value 2"))
     \/ /\ pc = 3
        /\ ReadUnwrap("p1", "key1", 187)
     \/ /\ pc = 4
        /\ Receive("p2", Message(p1_entry[1].vector_clock, "key1", "value 3"))
     \/ /\ pc = 5
        /\ Get("key1", "p1", "p2")

Caller == driver = "caller" /\ Running /\ UNCHANGED <<driver, pc, entry_key>>

\* A message carrying a clock made with VectorClock::new(0, NUM_PROCESSES).
CallerReceiveZero ==
  /\ Caller
  /\ TotalApplied < MaxEvents
  /\ \E r \in Replicas, key \in Keys, value \in CallerValues :
       Receive(r, Message(VectorClockNew(0, NUM_PROCESSES), key, value))

\* let entry = s.get(&key).cloned().unwrap(); followed by a message to r
\* carrying entry.vector_clock: the clock some process stores for the key.
CallerReceiveCopy ==
  /\ Caller
  /\ TotalApplied < MaxEvents
  /\ \E r \in Replicas, s \in Replicas, key \in Keys, value \in CallerValues :
       /\ ProcessGet(procs[s], key) # <<>>
       /\ Receive(r, Message(ProcessGet(procs[s], key)[1].vector_clock, key, value))

\* A message carrying a clock built elsewhere.
CallerReceiveExternal ==
  /\ Caller
  /\ TotalApplied < MaxEvents
  /\ \E r \in Replicas, key \in Keys, value \in CallerValues, vc \in ExternalClocks :
       Receive(r, Message(vc, key, value))

CallerGet ==
  /\ Caller
  /\ \E key \in Keys, a \in Replicas, b \in Replicas : Get(key, a, b)

Next ==
  \/ conflict_example_1
  \/ no_conflict_example_1
  \/ CallerReceiveZero
  \/ CallerReceiveCopy
  \/ CallerReceiveExternal
  \/ CallerGet

Spec == Init /\ [][Next]_vars

----------------------------------------------------------------------------
(* Runs whose messages carry only clocks the run produced *)

CausalCaller ==
  /\ driver = "caller"
  /\ Running
  /\ TotalApplied < MaxCausalEvents
  /\ UNCHANGED <<driver, pc>>

\* A message carrying a clock made with VectorClock::new(0, NUM_PROCESSES).
CausalReceiveZero ==
  /\ CausalCaller
  /\ UNCHANGED entry_key
  /\ \E r \in Replicas, k \in Keys, value \in CallerValues :
       Receive(r, Message(VectorClockNew(0, NUM_PROCESSES), k, value))

\* let key = k; let p1_entry = s.get(&key).cloned().unwrap();
\* of an entry s holds.
CausalRead ==
  /\ CausalCaller
  /\ \E s \in Replicas, k \in Keys :
       /\ ProcessGet(procs[s], k) # <<>>
       /\ entry_key' = k
       /\ ReadUnwrap(s, k, 140)

\* r.receive_message(Message { vector_clock: p1_entry.vector_clock.clone(),
\* key: key.clone(), value }): a copy, possibly an old one, of a clock some
\* process stored for the same key.
CausalReceiveCopy ==
  /\ CausalCaller
  /\ p1_entry # <<>>
  /\ UNCHANGED entry_key
  /\ \E r \in Replicas, value \in CallerValues :
       Receive(r, Message(p1_entry[1].vector_clock, entry_key, value))

\* As CausalReceiveCopy, to the process the entry was read from: a copy of
\* its own clock for the key.
LocalReceiveCopy ==
  /\ CausalCaller
  /\ p1_entry # <<>>
  /\ UNCHANGED entry_key
  /\ \E r \in Replicas, value \in CallerValues :
       /\ procs[r].process_id = p1_entry[1].vector_clock.process_id
       /\ Receive(r, Message(p1_entry[1].vector_clock, entry_key, value))

CausalGet ==
  /\ driver = "caller"
  /\ Running
  /\ UNCHANGED <<driver, pc, entry_key>>
  /\ \E k \in Keys, a \in Replicas, b \in Replicas : Get(k, a, b)

NextCausal ==
  \/ conflict_example_1
  \/ no_conflict_example_1
  \/ CausalReceiveZero
  \/ CausalRead
  \/ CausalReceiveCopy
  \/ CausalGet

SpecCausal == Init /\ [][NextCausal]_vars

\* Runs of the caller whose messages carry only zero clocks and copies of
\* the receiver's own clock for the key.
InitLocal == Init /\ driver = "caller"

NextLocal ==
  \/ CausalReceiveZero
  \/ CausalRead
  \/ LocalReceiveCopy
  \/ CausalGet

SpecLocal == InitLocal /\ [][NextLocal]_vars

----------------------------------------------------------------------------
(* Vocabulary of the properties *)

\* The processes of the run, while the driver holds them.
Live == DOMAIN procs

\* The clock r stores for key, given that it stores one.
StoredClock(r, key) == procs[r].kv[key].vector_clock

\* The position of process r's own counter in a clock.
Own(r) == procs[r].process_id + 1

Leq(a, b) == Len(a) = Len(b) /\ \A i \in 1..Len(a) : a[i] <= b[i]

\* The four causal relations of two clocks of the same length.
Relate(a, b) ==
  CASE a = b -> "Equal"
    [] a # b /\ Leq(a, b) -> "Before"
    [] a # b /\ Leq(b, a) -> "After"
    [] OTHER -> "Concurrent"

\* The clocks a message for key can carry in the current state: a zero
\* clock, a clock built elsewhere, the clock of the entry the driver holds, or
\* the clock a process stores for the key.
OfferedClocks(key) ==
  {VectorClockNew(0, NUM_PROCESSES)} \cup ExternalClocks
    \cup {p1_entry[n].vector_clock : n \in 1..Len(p1_entry)}
    \cup {procs[s].kv[key].vector_clock : s \in {x \in Live : key \in DOMAIN procs[x].kv}}

\* The clock of process p a message for key is merged into: the stored one,
\* or the fresh zero clock of the first write.
ReceiverClock(p, key) ==
  IF key \in DOMAIN p.kv
  THEN p.kv[key].vector_clock
  ELSE VectorClockNew(p.process_id, p.num_processes)

----------------------------------------------------------------------------
(* C1 *)

\* C1: for every receiver clock c the run can reach (a stored clock, or the
\* fresh zero clock of a first write) and every incoming clock d of the same
\* length that can be handed over, message_received leaves
\* counters[i] = max(c[i] + 1, d[i]) at the own position and
\* max(c[i], d[i]) at every other position; the owner id and the length of
\* the clock are unchanged.
C1_MergeOnReceive ==
  \A r \in Live : \A key \in Keys : \A vc \in OfferedClocks(key) :
    LET c == ReceiverClock(procs[r], key)
        d == vc.clocks
    IN  (Len(d) = Len(c.clocks) /\ c.process_id < Len(c.clocks)) =>
          LET post == MessageReceived(c, vc)
          IN  /\ post.process_id = c.process_id
              /\ Len(post.clocks) = Len(c.clocks)
              /\ \A i \in 1..Len(c.clocks) :
                   post.clocks[i] =
                     Max(c.clocks[i] + (IF i = c.process_id + 1 THEN 1 ELSE 0), d[i])

\* A clock merged twice in which the own counter comes from the two
\* increments and another counter from a message.
C1_Witness ==
  \E r \in Live : \E key \in DOMAIN procs[r].kv :
    /\ applied[r][key] = 2
    /\ StoredClock(r, key).clocks[Own(r)] = 2
    /\ \E i \in 1..NUM_PROCESSES : i # Own(r) /\ StoredClock(r, key).clocks[i] = MaxExternal

----------------------------------------------------------------------------
(* C2, C3: the two example functions *)

\* The entry p1 holds for key1 and the one p2 holds, as clocks.
ExampleClocks(c1, c2) ==
  /\ Replicas \subseteq Live
  /\ "key1" \in DOMAIN procs["p1"].kv
  /\ StoredClock("p1", "key1").clocks = c1
  /\ c2 # <<>> => /\ "key1" \in DOMAIN procs["p2"].kv
                  /\ StoredClock("p2", "key1").clocks = c2
  /\ c2 = <<>> => procs["p2"].kv = <<>>

\* C2: in conflict_example_1 process 0 (p1) holds [1,0,0], [2,0,0] and
\* [3,0,0] after its three messages, the third and the one to process 1 (p2)
\* both carrying the copy [2,0,0] read after the second; p2 then holds
\* [2,1,0]; the run does not panic and get prints "conflicting versions" for
\* p1=[3,0,0] p2=[2,1,0], two clocks that relate as Concurrent.
C2_ConflictExample ==
  driver = "conflict_example_1" =>
    /\ panic = NoPanic
    /\ pc = 1 => ExampleClocks(<<1, 0, 0>>, <<>>)
    /\ pc = 3 => ExampleClocks(<<2, 0, 0>>, <<>>)
    /\ pc = 5 => /\ ExampleClocks(<<3, 0, 0>>, <<>>)
                 /\ p1_entry[1].vector_clock.clocks = <<2, 0, 0>>
    /\ pc = 6 => ExampleClocks(<<3, 0, 0>>, <<2, 1, 0>>)
    /\ pc = 7 => /\ stdout = << [text |-> "conflicting versions",
                                 p1 |-> <<3, 0, 0>>, p2 |-> <<2, 1, 0>>] >>
                 /\ Relate(stdout[1].p1, stdout[1].p2) = "Concurrent"
    /\ stdout # <<>> => pc = 7

C2_Witness == driver = "conflict_example_1" /\ pc = 7 /\ stdout # <<>>

\* C3: in no_conflict_example_1 process 0 (p1) holds [1,0,0] and [2,0,0]
\* after its two messages; process 1 (p2) receives the copy [2,0,0] and holds
\* [2,1,0]; the run does not panic and get prints "ok" for
\* p1=[2,0,0] p2=[2,1,0]: p1's clock is component-wise <= p2's, Before.
C3_NoConflictExample ==
  driver = "no_conflict_example_1" =>
    /\ panic = NoPanic
    /\ pc = 1 => ExampleClocks(<<1, 0, 0>>, <<>>)
    /\ pc = 3 => ExampleClocks(<<2, 0, 0>>, <<>>)
    /\ pc = 4 => p1_entry[1].vector_clock.clocks = <<2, 0, 0>>
    /\ pc = 5 => ExampleClocks(<<2, 0, 0>>, <<2, 1, 0>>)
    /\ pc = 6 => /\ stdout = << [text |-> "ok",
                                 p1 |-> <<2, 0, 0>>, p2 |-> <<2, 1, 0>>] >>
                 /\ Leq(stdout[1].p1, stdout[1].p2)
                 /\ Relate(stdout[1].p1, stdout[1].p2) = "Before"
    /\ stdout # <<>> => pc = 6

C3_Witness == driver = "no_conflict_example_1" /\ pc = 6 /\ stdout # <<>>

----------------------------------------------------------------------------
(* C4 - C7: the outcomes and the failures the specification asks for *)

\* C4: get classifies the two clocks into Equal, Before, After or
\* Concurrent, and reports a conflict exactly when the clocks are
\* Concurrent: a first clock that strictly dominates the second is After,
\* not a conflict.
C4_FourOutcomes ==
  \A n \in 1..Len(stdout) :
    stdout[n].text = "conflicting versions"
      <=> Relate(stdout[n].p1, stdout[n].p2) = "Concurrent"

\* C5: a clock of another length is not merged into a receiver clock: no
\* counter of the receiver clock is taken from it (the own counter rises by
\* at most the one increment).
C5_LengthMismatchRejected ==
  \A r \in Live : \A key \in Keys : \A vc \in OfferedClocks(key) :
    LET c == ReceiverClock(procs[r], key)
    IN  (Len(vc.clocks) # Len(c.clocks) /\ c.process_id < Len(c.clocks)) =>
          \A i \in 1..Len(c.clocks) :
            MessageReceived(c, vc).clocks[i]
              <= c.clocks[i] + (IF i = c.process_id + 1 THEN 1 ELSE 0)

\* C6: a clock for an owner id that is no index of it is refused with an
\* error result: the run never ends in the panic of VectorClock::new.
C6_InvalidOwnerIsNoPanic == panic # InvalidOwnerPanic

\* C7: get for a key one of the two processes does not hold returns a
\* KeyNotFound result: the run never ends in the panic of an unwrap of get.
C7_MissingKeyIsNoPanic == panic \notin {UnwrapPanic(99), UnwrapPanic(100)}

----------------------------------------------------------------------------
(* C8: Process::get *)

\* What Process::get returns agrees with the messages the process received.
ReadAgreesWithApplied ==
  \A r \in Live : \A key \in Keys :
    LET found == ProcessGet(procs[r], key)
    IN  /\ found = <<>> <=> applied[r][key] = 0
        /\ found # <<>> => found = <<procs[r].kv[key]>>

\* A step of an example function that reads p1's entry for key1.
ExampleReadStep == driver # "caller" /\ pc \in {1, 3} /\ pc' = pc + 1

\* C8: Process::get returns None exactly for a key the process has received
\* no message for (so for every key of a fresh process) and the one current
\* entry otherwise, never a default entry; a read hands the driver that
\* entry and changes no store.
C8_ReadNotFoundIffNeverApplied ==
  /\ []ReadAgreesWithApplied
  /\ [][ExampleReadStep =>
          /\ procs' = procs
          /\ applied' = applied
          /\ p1_entry' = <<procs["p1"].kv["key1"]>>]_vars

\* p1 has received one message for key1, the driver has read the entry, and
\* the other key and the other process have none.
C8_Witness ==
  /\ driver = "conflict_example_1"
  /\ pc = 2
  /\ p1_entry = ProcessGet(procs["p1"], "key1")
  /\ p1_entry # <<>>
  /\ ProcessGet(procs["p1"], "key2") = <<>>
  /\ ProcessGet(procs["p2"], "key1") = <<>>

----------------------------------------------------------------------------
(* C9, C10: the own counter and the growth of a stored clock *)

C10_MergeNeverRegresses ==
  [][(Replicas \subseteq Live /\ Replicas \subseteq Live') =>
       \A r \in Replicas : \A key \in DOMAIN procs[r].kv :
         /\ key \in DOMAIN procs'[r].kv
         /\ \A i \in 1..Len(StoredClock(r, key).clocks) :
              StoredClock(r, key)'.clocks[i] >= StoredClock(r, key).clocks[i]
         /\ applied'[r][key] # applied[r][key] =>
              /\ StoredClock(r, key)'.clocks[Own(r)]
                   > StoredClock(r, key).clocks[Own(r)]
              /\ Relate(StoredClock(r, key).clocks, StoredClock(r, key)'.clocks)
                   = "Before"]_vars

\* A clock that has been merged into after its first write, with a counter
\* taken from a message.
C10_Witness ==
  \E r \in Live : \E key \in DOMAIN procs[r].kv :
    /\ applied[r][key] >= 2
    /\ \E i \in 1..NUM_PROCESSES : i # Own(r) /\ StoredClock(r, key).clocks[i] > 0

----------------------------------------------------------------------------
(* C11: the stored clock after a message against the clock of the message *)

\* C11: for every receiver clock the run can reach and every incoming clock
\* of the same length that can be handed over, the clock stored after
\* message_received is causally after the clock of the message: every
\* counter of the message is at most the stored one and the two clocks
\* differ, so the message clock relates to the stored clock as Before and
\* never as Equal.
C11_StoredAfterSender ==
  \A r \in Live : \A key \in Keys : \A vc \in OfferedClocks(key) :
    LET c == ReceiverClock(procs[r], key)
    IN  (Len(vc.clocks) = Len(c.clocks) /\ c.process_id < Len(c.clocks)) =>
          Relate(vc.clocks, MessageReceived(c, vc).clocks) = "Before"

----------------------------------------------------------------------------
(* C12, C13, C14: what receive_message changes *)

\* The entries a step has applied a message to.
AppliedTo == {rk \in Replicas \X Keys : applied'[rk[1]][rk[2]] # applied[rk[1]][rk[2]]}

\* C12: a step in which process r receives a message for a key changes the
\* entry r holds for that key and nothing else: every entry of another key
\* of r and every entry of every other process is what it was (value and
\* clock), the owner id and the number of processes of every process are
\* unchanged, and afterwards r holds the keys it held and the key of the
\* message, one entry for each.
C12_ReceiveTouchesOneEntry ==
  [][(Replicas \subseteq Live /\ Replicas \subseteq Live') =>
       /\ Cardinality(AppliedTo) <= 1
       /\ \A r \in Replicas :
            /\ procs'[r].process_id = procs[r].process_id
            /\ procs'[r].num_processes = procs[r].num_processes
            /\ DOMAIN procs'[r].kv =
                 DOMAIN procs[r].kv \cup {key \in Keys : <<r, key>> \in AppliedTo}
            /\ \A key \in Keys :
                 <<r, key>> \notin AppliedTo =>
                   ProcessGet(procs'[r], key) = ProcessGet(procs[r], key)]_vars

\* Two entries are held, of two keys or by two processes: the later one was
\* written while the other was there.
C12_Witness ==
  /\ Replicas \subseteq Live
  /\ Cardinality({rk \in Replicas \X Keys : rk[2] \in DOMAIN procs[rk[1]].kv}) >= 2

\* The clocks of a message for key the value claims are checked with: the
\* zero clock, the clock of the entry the driver holds, the clocks stored for
\* the key (equal to, before, after or concurrent with the clock of the
\* receiver), and the clocks built elsewhere whose counters are all
\* MaxExternal, of every length.
ProbeClocks(key) ==
  {vc \in OfferedClocks(key) :
     vc \in ExternalClocks => \A i \in 1..Len(vc.clocks) : vc.clocks[i] = MaxExternal}
    \cup {VectorClockNew(0, NUM_PROCESSES)}

\* C13: for every process, every key, and every message for the key (a zero
\* clock, a stored clock, or a clock built elsewhere of any length, with any
\* value), unless receive_message panics the value the process stores for
\* the key afterwards is the value of the message, whether the process held
\* the key or not and however the clock of the message relates to the stored
\* one.
C13_LastWriterWins ==
  \A r \in Live : \A key \in Keys : \A vc \in ProbeClocks(key) :
    \A value \in CallerValues :
      LET message == Message(vc, key, value)
      IN  ~ReceiveMessagePanics(procs[r], message) =>
            /\ key \in DOMAIN ReceiveMessage(procs[r], message).kv
            /\ ReceiveMessage(procs[r], message).kv[key].value = value

\* A process that has received two messages for a key, neither of which
\* carried a counter of another process, so that the second was not after
\* the stored clock: it holds the value of the second.
C13_Witness ==
  \E r \in Live : \E key \in DOMAIN procs[r].kv :
    /\ driver = "caller"
    /\ applied[r][key] = 2
    /\ procs[r].kv[key].value = "value 2"
    /\ \A i \in 1..NUM_PROCESSES : i # Own(r) => StoredClock(r, key).clocks[i] = 0

\* C14: for every process, every key and every message for the key (clocks
\* as for C13), receiving the message a second time right after the first
\* leaves a clock whose own counter is one more than after the first time
\* and whose other counters are the same, the same value, and the same
\* other entries: the receive is counted again, the maximum and the value
\* are not changed by the repetition.
C14_DuplicateDelivery ==
  \A r \in Live : \A key \in Keys : \A vc \in ProbeClocks(key) :
    \A value \in CallerValues :
      LET message == Message(vc, key, value)
          once == ReceiveMessage(procs[r], message)
          twice == ReceiveMessage(once, message)
          own == procs[r].process_id + 1
      IN  ~ReceiveMessagePanics(procs[r], message) =>
            /\ DOMAIN twice.kv = DOMAIN once.kv
            /\ \A k \in DOMAIN once.kv \ {key} : twice.kv[k] = once.kv[k]
            /\ twice.kv[key].value = once.kv[key].value
            /\ twice.kv[key].vector_clock.process_id
                 = once.kv[key].vector_clock.process_id
            /\ Len(twice.kv[key].vector_clock.clocks)
                 = Len(once.kv[key].vector_clock.clocks)
            /\ \A i \in 1..Len(once.kv[key].vector_clock.clocks) :
                 twice.kv[key].vector_clock.clocks[i] =
                   once.kv[key].vector_clock.clocks[i] + (IF i = own THEN 1 ELSE 0)

\* A process that has received two messages for a key: its own counter is 2
\* and another counter is the MaxExternal both messages can have carried.
C14_Witness ==
  \E r \in Live : \E key \in DOMAIN procs[r].kv :
    /\ applied[r][key] = 2
    /\ StoredClock(r, key).clocks[Own(r)] = 2
    /\ \E i \in 1..NUM_PROCESSES :
         i # Own(r) /\ StoredClock(r, key).clocks[i] = MaxExternal

----------------------------------------------------------------------------
(* C15: two processes that have only counted their own events *)

\* C15: in runs whose messages carry only zero clocks and copies of the
\* receiver's own clock for the key, for every key and every two distinct
\* processes that both hold the key (each has received at least one message
\* for it), get prints "conflicting versions" in both argument orders and the
\* two clocks relate as Concurrent; a line get has printed with "ok" is
\* that of a process compared with itself.
C15_IndependentWritesConflict ==
  /\ \A a \in Live : \A b \in Live \ {a} :
       \A key \in DOMAIN procs[a].kv \cap DOMAIN procs[b].kv :
         /\ applied[a][key] >= 1 /\ applied[b][key] >= 1
         /\ ~GetPanics(key, procs[a], procs[b])
         /\ GetLine(key, procs[a], procs[b]).text = "conflicting versions"
         /\ GetLine(key, procs[b], procs[a]).text = "conflicting versions"
         /\ Relate(StoredClock(a, key).clocks, StoredClock(b, key).clocks)
              = "Concurrent"
  /\ \A n \in 1..Len(stdout) : stdout[n].text = "ok" => stdout[n].p1 = stdout[n].p2

\* get has printed "conflicting versions" for two processes that had both
\* received more than one message for the key.
C15_Witness ==
  /\ Len(stdout) = 1
  /\ stdout[1].text = "conflicting versions"
  /\ \E i \in 1..NUM_PROCESSES : stdout[1].p1[i] >= 2
  /\ \E i \in 1..NUM_PROCESSES : stdout[1].p2[i] >= 2

----------------------------------------------------------------------------
(* C16: the shape of a stored clock *)

\* C16: in every reachable state, every clock a process stores has as many
\* counters as the process has num_processes and carries the process_id of
\* the process, whatever the lengths and owner ids of the clocks of the
\* messages the process has received.
C16_StoredClockShape ==
  \A r \in Live : \A key \in DOMAIN procs[r].kv :
    /\ Len(StoredClock(r, key).clocks) = procs[r].num_processes
    /\ StoredClock(r, key).process_id = procs[r].process_id

\* A process other than process 0 that has received two messages for a key
\* and holds MaxExternal, taken from the clocks of messages, in the first and
\* in the last counter.
C16_Witness ==
  \E r \in Live : \E key \in DOMAIN procs[r].kv :
    /\ procs[r].process_id # 0
    /\ applied[r][key] = 2
    /\ StoredClock(r, key).clocks[1] = MaxExternal
    /\ StoredClock(r, key).clocks[NUM_PROCESSES] = MaxExternal

----------------------------------------------------------------------------
(* C17, C18, C19: runs whose messages carry zero clocks and copies of clocks
   stored for the same key *)

\* C17: in runs whose messages carry only zero clocks and copies of clocks
\* stored for the same key, in every reachable state the own counter of the
\* clock a process stores for a key is exactly the number of messages the
\* process has received for that key, and a process holds no entry for a key
\* it has received no message for: a message for the key adds exactly 1, a
\* message for another key adds nothing.
C17_OwnCounterIsKeyEvents ==
  \A r \in Live : \A key \in Keys :
    IF key \in DOMAIN procs[r].kv
    THEN StoredClock(r, key).clocks[Own(r)] = applied[r][key]
    ELSE applied[r][key] = 0

\* A process that has received two messages for one key, one of them a copy
\* of the clock of another process, and one message for the other key.
C17_Witness ==
  \E r \in Live : \E k1 \in Keys : \E k2 \in Keys \ {k1} :
    /\ DOMAIN procs[r].kv = Keys
    /\ applied[r][k1] = 2 /\ StoredClock(r, k1).clocks[Own(r)] = 2
    /\ applied[r][k2] = 1 /\ StoredClock(r, k2).clocks[Own(r)] = 1
    /\ \E i \in 1..NUM_PROCESSES : i # Own(r) /\ StoredClock(r, k1).clocks[i] >= 1

\* C18: in the same runs, in every reachable state, for every key, every
\* process q that holds the key and every counter position: if the process
\* the position belongs to holds the key, the counter of q is at most the
\* counter that process has for itself; if that process holds no entry for
\* the key (or no process has that id), the counter of q is 0.
C18_KnowledgeBound ==
  \A q \in Live : \A key \in DOMAIN procs[q].kv : \A i \in 1..NUM_PROCESSES :
    LET holders == {p \in Live : Own(p) = i /\ key \in DOMAIN procs[p].kv}
    IN  IF holders = {}
        THEN StoredClock(q, key).clocks[i] = 0
        ELSE \A p \in holders :
               StoredClock(q, key).clocks[i] <= StoredClock(p, key).clocks[i]

\* A process holds 1 in the counter of another process that has since counted
\* 2 for itself, and 0 in the counter of a process that holds nothing.
C18_Witness ==
  \E q \in Live : \E p \in Live \ {q} : \E key \in DOMAIN procs[q].kv \cap DOMAIN procs[p].kv :
    /\ StoredClock(q, key).clocks[Own(p)] = 1
    /\ StoredClock(p, key).clocks[Own(p)] = 2
    /\ StoredClock(p, key).clocks[Own(q)] >= 1

\* C19: in the same runs, in every reachable state two distinct processes
\* never hold equal clocks for the same key, so get does not print "ok" for
\* the key in both argument orders.
C19_DistinctClocks ==
  \A a \in Live : \A b \in Live \ {a} :
    \A key \in DOMAIN procs[a].kv \cap DOMAIN procs[b].kv :
      /\ StoredClock(a, key).clocks # StoredClock(b, key).clocks
      /\ Relate(StoredClock(a, key).clocks, StoredClock(b, key).clocks) # "Equal"
      /\ ~(/\ GetLine(key, procs[a], procs[b]).text = "ok"
           /\ GetLine(key, procs[b], procs[a]).text = "ok")

\* Two processes hold clocks for a key of which one is before the other, both
\* having merged a copy of the clock of the other: get prints "ok" in one
\* order only.
C19_Witness ==
  \E a \in Live : \E b \in Live \ {a} :
    \E key \in DOMAIN procs[a].kv \cap DOMAIN procs[b].kv :
      /\ StoredClock(a, key).clocks[Own(b)] >= 1
      /\ StoredClock(b, key).clocks[Own(a)] >= 1
      /\ GetLine(key, procs[a], procs[b]).text = "ok"
      /\ GetLine(key, procs[b], procs[a]).text = "conflicting versions"

====
